---- MODULE Spec2Model ----
(***************************************************************************)
(* Model of topo/submodels/__init__.py: the Specification / SheetSpec /    *)
(* ProjectionSpec templates, the MatchConditions and decorator registries  *)
(* and the Model orchestrator (setup and __call__).                        *)
(*                                                                         *)
(* Conventions                                                             *)
(*  - a Python string whose characters matter (property values, sheet      *)
(*    identities) is a sequence of one-character strings, so that          *)
(*    concatenation and the substring test are computed, not assumed;      *)
(*  - a property value is a tagged record (IntV / StrV) and str() is the   *)
(*    operator Str;                                                        *)
(*  - a Python dict whose insertion order is observable is a sequence of   *)
(*    [k, v] items with distinct keys; a parameters dict is a function     *)
(*    from names to values;                                                *)
(*  - an AttrTree is its path_items: a sequence of [path, val] entries in  *)
(*    first-insertion order.                                               *)
(***************************************************************************)
EXTENDS Integers, Sequences, FiniteSets, TLC

VARIABLES
    cfg,               \* the Model subclass: hooks, decorators, matchconditions
    phase,             \* "new" before __init__, "ready" after, "failed" if __init__ raised
    attrs,             \* self.attrs
    training_patterns, \* self.training_patterns
    sheets,            \* self.sheets
    projections,       \* self.projections
    sim,               \* topo.sim: the runtime registry of sheets
    simBefore,         \* topo.sim as it was when the last __call__ started
    callLog,           \* runtime operations issued by the last __call__, in order
    setupLog,          \* hooks invoked by the last setup, in order
    lastOp,            \* the last operation and its argument
    err,               \* exception that ended the last operation, "" if none
    nSetups,           \* number of setup calls made after construction
    nCalls,            \* number of __call__ calls made
    given,             \* a properties dict handed to SheetSpec(...)
    built,             \* the SheetSpecs constructed from it
    target,            \* a Specification that update_parameters is called on
    lastUpdate         \* the last update_parameters call on it: the patch and
                       \* the parameters before it

vars == <<cfg, phase, attrs, training_patterns, sheets, projections, sim,
          simBefore, callLog, setupLog, lastOp, err, nSetups, nCalls,
          given, built, target, lastUpdate>>

----------------------------------------------------------------------------
(* Bounds *)

MaxSetups == 1
MaxCalls == 2
MaxProperties == 3

----------------------------------------------------------------------------
(* Python values *)

Digits == <<"0", "1", "2", "3", "4", "5", "6", "7", "8", "9">>

IntV(n) == [t |-> "int", n |-> n, s |-> <<>>]
StrV(s) == [t |-> "str", n |-> 0, s |-> s]

RECURSIVE IntToStr(_)
IntToStr(n) ==
    IF n < 10 THEN <<Digits[n + 1]>>
    ELSE IntToStr(n \div 10) \o <<Digits[(n % 10) + 1]>>

\* str(value)
Str(v) == IF v.t = "int" THEN IntToStr(v.n) ELSE v.s

\* a in b, for strings
StrContains(a, b) ==
    \E i \in 0..(Len(b) - Len(a)) : SubSeq(b, i + 1, i + Len(a)) = a

\* dict helpers: items with distinct keys, in insertion order
Keys(d) == {d[i].k : i \in 1..Len(d)}
HasKey(d, key) == \E i \in 1..Len(d) : d[i].k = key
Get(d, key) == d[CHOOSE i \in 1..Len(d) : d[i].k = key].v
Item(key, val) == [k |-> key, v |-> val]

EmptyParams == [x \in {} |-> ""]

\* variant: a key the dict already has keeps its value
DictKeepExisting(d, patch) ==
    [x \in (DOMAIN d) \cup (DOMAIN patch) |->
        IF x \in DOMAIN d THEN d[x] ELSE patch[x]]

\* dict.update on a parameters dict
DictUpdate(d, patch) ==
    [x \in (DOMAIN d) \cup (DOMAIN patch) |->
        IF x \in DOMAIN patch THEN patch[x] ELSE d[x]]

----------------------------------------------------------------------------
(* AttrTree (dataviews): path_items keeps first-insertion order and        *)
(* set_path on an existing path replaces the value in place.               *)

Paths(tree) == {tree[i].path : i \in 1..Len(tree)}
HasPath(tree, p) == \E i \in 1..Len(tree) : tree[i].path = p
GetPath(tree, p) == tree[CHOOSE i \in 1..Len(tree) : tree[i].path = p].val
Values(tree) == [i \in 1..Len(tree) |-> tree[i].val]

SetPath(tree, p, v) ==
    IF HasPath(tree, p)
    THEN [i \in 1..Len(tree) |->
            IF tree[i].path = p THEN [path |-> p, val |-> v] ELSE tree[i]]
    ELSE Append(tree, [path |-> p, val |-> v])

----------------------------------------------------------------------------
(* Specification, SheetSpec *)

\* Specification.update_parameters
update_parameters(spec, params) ==
    [spec EXCEPT !.parameters = DictUpdate(spec.parameters, params)]

name_ordering == <<"eye", "level", "cone", "polarity", "SF", "opponent", "surround">>

\* variant: the properties are kept as they were given
PropertiesAsGiven(properties, i) == properties

\* the list comprehension of SheetSpec.__init__: one item per name_ordering
\* key present in properties, in name_ordering order
RECURSIVE OrderedProperties(_, _)
OrderedProperties(properties, i) ==
    IF i > Len(name_ordering) THEN <<>>
    ELSE (IF HasKey(properties, name_ordering[i])
          THEN <<Item(name_ordering[i], Get(properties, name_ordering[i]))>>
          ELSE <<>>) \o OrderedProperties(properties, i + 1)

\* variant: the constructor does not ask for 'level'
SheetSpecInitLenient(sheet_type, defaults, properties) ==
    [err |-> "", spec |-> [sheet_type |-> sheet_type,
        properties |-> OrderedProperties(properties, 1),
        parameters |-> defaults]]

\* SheetSpec.__init__; err is set when the constructor raises
SheetSpecInit(sheet_type, defaults, properties) ==
    IF ~HasKey(properties, "level")
    THEN [err |-> "Exception:level", spec |-> [sheet_type |-> sheet_type,
              properties |-> <<>>, parameters |-> defaults]]
    ELSE [err |-> "", spec |-> [sheet_type |-> sheet_type,
              properties |-> OrderedProperties(properties, 1),
              parameters |-> defaults]]

\* SheetSpec.__str__ over an OrderedDict of properties
RECURSIVE PropsStr(_)
PropsStr(props) ==
    IF props = <<>> THEN <<>>
    ELSE Str(Head(props).v) \o PropsStr(Tail(props))

\* variant: the name is the level alone
SheetStrLevelOnly(spec) == Str(Get(spec.properties, "level"))

SheetStr(spec) == PropsStr(spec.properties)

\* SheetSpec.level
Level(spec) == Get(spec.properties, "level")

----------------------------------------------------------------------------
(* ProjectionSpec *)

\* ProjectionSpec.__init__: the type's defaults without the keys src and dest.
\* src and dest refer to SheetSpecs; only their sheet_type and properties are
\* ever read through a ProjectionSpec, and neither changes after construction,
\* so the reference is kept as that pair.
SheetRef(sheet_spec) ==
    [sheet_type |-> sheet_spec.sheet_type, properties |-> sheet_spec.properties]

ProjectionSpecInit(projection_type, defaults, src, dest) ==
    [projection_type |-> projection_type,
     src |-> SheetRef(src),
     dest |-> SheetRef(dest),
     parameters |-> [x \in (DOMAIN defaults) \ {"src", "dest"} |-> defaults[x]],
     matchname |-> ""]

----------------------------------------------------------------------------
(* Decorator registries of the Model class (ObjectClass, MatchConditions).  *)
(* ObjectClass.__call__ stores types[label] and labels[label] together, so  *)
(* a decorator entry is an item label -> [type, fn]; fn is the value the    *)
(* decorated function returns.                                              *)

\* Model.sheet_types / Model.sheet_labels / projection_types / projection_labels
sheet_types(c) == [i \in 1..Len(c.sheet_decorators) |->
    Item(c.sheet_decorators[i].k, c.sheet_decorators[i].v.type)]
sheet_labels(c) == [i \in 1..Len(c.sheet_decorators) |->
    Item(c.sheet_decorators[i].k, c.sheet_decorators[i].v.fn)]
projection_types(c) == [i \in 1..Len(c.projection_decorators) |->
    Item(c.projection_decorators[i].k, c.projection_decorators[i].v.type)]
projection_labels(c) == [i \in 1..Len(c.projection_decorators) |->
    Item(c.projection_decorators[i].k, c.projection_decorators[i].v.fn)]

\* MatchConditions.__contains__
MatchContains(c, level) == HasKey(c.matchconditions, level)

\* MatchConditions.compute_conditions: name -> condition dict, for the level
compute_conditions(c, level) ==
    IF ~MatchContains(c, level)
    THEN [err |-> "Exception:nolevel", conditions |-> <<>>]
    ELSE [err |-> "", conditions |-> Get(c.matchconditions, level)]

\* object_type.params() defaults of the sheet and projection classes
TypeDefaults(object_type) ==
    IF object_type \in {"CFProjection", "SharedWeightCFProjection"}
    THEN [x \in {"src", "dest", "name", "strength"} |-> "default"]
    ELSE [x \in {"name", "nominal_density"} |-> "default"]

----------------------------------------------------------------------------
(* Model.setup: the sheets stage *)

\* variant: a SheetSpec whose path is already taken is stored beside the one
\* that holds it, under the path with a mark added
RECURSIVE AddSheetsBeside(_, _, _, _)
AddSheetsBeside(tree, level, sheet_type, property_list) ==
    IF property_list = <<>> THEN [tree |-> tree, err |-> ""]
    ELSE LET made == SheetSpecInit(sheet_type, TypeDefaults(sheet_type),
                         <<Item("level", StrV(level))>> \o Head(property_list))
         IN AddSheetsBeside(
                IF HasPath(tree, SheetStr(made.spec))
                THEN SetPath(tree, SheetStr(made.spec) \o <<"_">>, made.spec)
                ELSE SetPath(tree, SheetStr(made.spec), made.spec),
                level, sheet_type, Tail(property_list))

\* variant: a SheetSpec whose path is already taken is not stored
RECURSIVE AddSheetsKeepFirst(_, _, _, _)
AddSheetsKeepFirst(tree, level, sheet_type, property_list) ==
    IF property_list = <<>> THEN [tree |-> tree, err |-> ""]
    ELSE LET made == SheetSpecInit(sheet_type, TypeDefaults(sheet_type),
                         <<Item("level", StrV(level))>> \o Head(property_list))
         IN AddSheetsKeepFirst(
                IF HasPath(tree, SheetStr(made.spec)) THEN tree
                ELSE SetPath(tree, SheetStr(made.spec), made.spec),
                level, sheet_type, Tail(property_list))

\* lines 465-468: one SheetSpec per properties dict of the level
RECURSIVE AddSheets(_, _, _, _)
AddSheets(tree, level, sheet_type, property_list) ==
    IF property_list = <<>> THEN [tree |-> tree, err |-> ""]
    ELSE LET properties == Head(property_list)
         IN IF HasKey(properties, "level")
            THEN [tree |-> tree, err |-> "TypeError:level"]
            ELSE LET spec_properties == <<Item("level", StrV(level))>> \o properties
                     made == SheetSpecInit(sheet_type, TypeDefaults(sheet_type),
                                           spec_properties)
                 IN IF made.err # "" THEN [tree |-> tree, err |-> made.err]
                    ELSE AddSheets(SetPath(tree, SheetStr(made.spec), made.spec),
                                   level, sheet_type, Tail(property_list))

\* lines 457-463: what the declared value of a level expands to
PropertyList(declared) ==
    IF declared.kind = "Identity" THEN << <<>> >>
    ELSE declared.specs

\* variant: a level without a registered type gets the base sheet type, so
\* the missing level function is first noticed by _update_sheet_spec_parameters
AddLevelUntyped(c, tree, level, declared) ==
    AddSheets(tree, level,
              IF HasKey(sheet_types(c), level) THEN Get(sheet_types(c), level) ELSE "Sheet",
              PropertyList(declared))

\* lines 455-468: one level of the dict setup_sheets returned
AddLevel(c, tree, level, declared) ==
    IF ~HasKey(sheet_types(c), level)
    THEN [tree |-> tree, err |-> "KeyError:sheet_types"]
    ELSE AddSheets(tree, level, Get(sheet_types(c), level), PropertyList(declared))

\* line 454: the loop over the levels; r is the tree so far and the
\* exception raised, if any
RECURSIVE AddLevels(_, _, _)
AddLevels(c, r, sheet_properties) ==
    IF sheet_properties = <<>> \/ r.err # "" THEN r
    ELSE AddLevels(c, AddLevel(c, r.tree, Head(sheet_properties).k,
                               Head(sheet_properties).v),
                   Tail(sheet_properties))

\* Model._update_sheet_spec_parameters, from entry i of the sheets tree on
RECURSIVE UpdateSheetSpecParameters(_, _, _)
UpdateSheetSpecParameters(c, r, i) ==
    IF i > Len(r.tree) \/ r.err # "" THEN r
    ELSE LET sheet_spec == r.tree[i].val
             level == Level(sheet_spec).s
         IN IF ~HasKey(sheet_labels(c), level)
            THEN [r EXCEPT !.err = "Exception:nolabel"]
            ELSE UpdateSheetSpecParameters(c,
                    [r EXCEPT !.tree[i].val =
                        update_parameters(sheet_spec, Get(sheet_labels(c), level))],
                    i + 1)

\* lines 451-470
SheetsStage(c, tree) ==
    IF ~c.setup_sheets.overridden
    THEN [tree |-> tree, err |-> "NotImplementedError"]
    ELSE UpdateSheetSpecParameters(c,
            AddLevels(c, [tree |-> tree, err |-> ""], c.setup_sheets.result), 1)

----------------------------------------------------------------------------
(* Model.setup: the projections stage *)

\* variant: the required value is looked for in the source's value
RECURSIVE AllKeysMatchReversed(_, _)
AllKeysMatchReversed(items, properties) ==
    IF items = <<>> THEN TRUE
    ELSE IF HasKey(properties, Head(items).k)
            /\ ~StrContains(Str(Head(items).v), Str(Get(properties, Head(items).k)))
         THEN FALSE
         ELSE AllKeysMatchReversed(Tail(items), properties)

\* the loop of Model._matchcondition_holds over matchconditions.items()
RECURSIVE AllKeysMatch(_, _)
AllKeysMatch(items, properties) ==
    IF items = <<>> THEN TRUE
    ELSE LET incoming_key == Head(items).k
             incoming_value == Head(items).v
         IN IF HasKey(properties, incoming_key)
               /\ ~StrContains(Str(Get(properties, incoming_key)), Str(incoming_value))
            THEN FALSE
            ELSE AllKeysMatch(Tail(items), properties)

\* variant: every source matches a condition that is not None
matchcondition_ignored(matchconditions, src_sheet) == ~matchconditions.none

\* Model._matchcondition_holds
matchcondition_holds(matchconditions, src_sheet) ==
    IF matchconditions.none THEN FALSE
    ELSE AllKeysMatch(matchconditions.items, src_sheet.properties)

\* line 527: a single dict is wrapped into a one-element list
ParamSets(returned) ==
    IF returned.isDict THEN <<returned.dict>> ELSE returned.list

\* variant: the path names the source before the destination
RECURSIVE AddParamSetsSourceFirst(_, _, _, _, _, _)
AddParamSetsSourceFirst(tree, projection_type, matchname, src_sheet, dest_sheet, paramsets) ==
    IF paramsets = <<>> THEN [tree |-> tree, err |-> ""]
    ELSE IF "name" \notin DOMAIN Head(paramsets)
    THEN [tree |-> tree, err |-> "KeyError:name"]
    ELSE AddParamSetsSourceFirst(
            SetPath(tree,
                    <<SheetStr(src_sheet), SheetStr(dest_sheet), Head(paramsets)["name"]>>,
                    [update_parameters(
                        ProjectionSpecInit(projection_type, TypeDefaults(projection_type),
                                           src_sheet, dest_sheet),
                        Head(paramsets)) EXCEPT !.matchname = matchname]),
            projection_type, matchname, src_sheet, dest_sheet, Tail(paramsets))

\* variant: a parameter set whose path is already taken is not stored
RECURSIVE AddParamSetsKeepFirst(_, _, _, _, _, _)
AddParamSetsKeepFirst(tree, projection_type, matchname, src_sheet, dest_sheet, paramsets) ==
    IF paramsets = <<>> THEN [tree |-> tree, err |-> ""]
    ELSE IF "name" \notin DOMAIN Head(paramsets)
    THEN [tree |-> tree, err |-> "KeyError:name"]
    ELSE AddParamSetsKeepFirst(
            IF HasPath(tree, <<SheetStr(dest_sheet), SheetStr(src_sheet),
                               Head(paramsets)["name"]>>)
            THEN tree
            ELSE SetPath(tree,
                    <<SheetStr(dest_sheet), SheetStr(src_sheet), Head(paramsets)["name"]>>,
                    [update_parameters(
                        ProjectionSpecInit(projection_type, TypeDefaults(projection_type),
                                           src_sheet, dest_sheet),
                        Head(paramsets)) EXCEPT !.matchname = matchname]),
            projection_type, matchname, src_sheet, dest_sheet, Tail(paramsets))

\* lines 528-538: one ProjectionSpec per parameter set
RECURSIVE AddParamSets(_, _, _, _, _, _)
AddParamSets(tree, projection_type, matchname, src_sheet, dest_sheet, paramsets) ==
    IF paramsets = <<>> THEN [tree |-> tree, err |-> ""]
    ELSE LET paramset == Head(paramsets)
             made == ProjectionSpecInit(projection_type,
                         TypeDefaults(projection_type), src_sheet, dest_sheet)
             proj == [update_parameters(made, paramset) EXCEPT !.matchname = matchname]
         IN IF "name" \notin DOMAIN paramset
            THEN [tree |-> tree, err |-> "KeyError:name"]
            ELSE AddParamSets(
                    SetPath(tree,
                            <<SheetStr(dest_sheet), SheetStr(src_sheet), paramset["name"]>>,
                            proj),
                    projection_type, matchname, src_sheet, dest_sheet, Tail(paramsets))

\* lines 521-538: one named condition of the destination for one source
AddCondition(c, tree, matchname, matchconditions, src_sheet, dest_sheet) ==
    IF ~matchcondition_holds(matchconditions, src_sheet)
    THEN [tree |-> tree, err |-> ""]
    ELSE IF ~HasKey(projection_types(c), matchname)
    THEN [tree |-> tree, err |-> "KeyError:projection_types"]
    ELSE AddParamSets(tree, Get(projection_types(c), matchname),
                      matchname, src_sheet, dest_sheet,
                      ParamSets(Get(projection_labels(c), matchname)))

\* line 519: the loop over conditions.items() for one (src, dest) pair
RECURSIVE AddConditions(_, _, _, _, _)
AddConditions(c, r, conditions, src_sheet, dest_sheet) ==
    IF conditions = <<>> \/ r.err # "" THEN r
    ELSE AddConditions(c,
            AddCondition(c, r.tree, Head(conditions).k, Head(conditions).v,
                         src_sheet, dest_sheet),
            Tail(conditions), src_sheet, dest_sheet)

\* lines 514-517: the conditions of the destination's level, {} without any
Conditions(c, dest_sheet) ==
    IF MatchContains(c, Level(dest_sheet).s)
    THEN compute_conditions(c, Level(dest_sheet).s).conditions
    ELSE <<>>

\* Model._compute_projection_specs: itertools.product(sheets, sheets) yields
\* the pairs with the source as the slow index; n is the position in the product
RECURSIVE ComputeProjectionSpecs(_, _, _, _)
ComputeProjectionSpecs(c, sheet_specs, r, n) ==
    IF n >= Len(sheet_specs) * Len(sheet_specs) \/ r.err # "" THEN r
    ELSE LET src_sheet == sheet_specs[(n \div Len(sheet_specs)) + 1]
             dest_sheet == sheet_specs[(n % Len(sheet_specs)) + 1]
         IN ComputeProjectionSpecs(c, sheet_specs,
                AddConditions(c, r, Conditions(c, dest_sheet), src_sheet, dest_sheet),
                n + 1)

ProjectionsStage(c, sheet_tree, tree) ==
    ComputeProjectionSpecs(c, Values(sheet_tree), [tree |-> tree, err |-> ""], 0)

----------------------------------------------------------------------------
(* Model.setup *)

available_setup_options ==
    <<"attributes", "training_patterns", "sheets", "projections", "analysis">>

\* an options argument is True or a list of names
True == [all |-> TRUE, list |-> <<>>]
List(l) == [all |-> FALSE, list |-> l]

\* x in list
In(x, list) == \E i \in 1..Len(list) : list[i] = x

\* lines 441-442
SetupOptions(setup_options) ==
    IF setup_options.all THEN available_setup_options ELSE setup_options.list

\* the chain of `if '<stage>' in setup_options` tests, lines 444-473: the
\* stages that run, in the order the tests are written
SetupStages(setup_options) ==
    SelectSeq(available_setup_options, LAMBDA stage : In(stage, SetupOptions(setup_options)))

\* the methods a Model has; setup_analysis is defined, _setup_analysis is not
ModelMethods ==
    {"setup_attributes", "setup_training_patterns", "setup_sheets",
     "setup_analysis", "setup", "_update_sheet_spec_parameters",
     "_matchcondition_holds", "_compute_projection_specs", "_order_projections"}

\* lines 449-450
RECURSIVE SetPaths(_, _)
SetPaths(tree, items) ==
    IF items = <<>> THEN tree
    ELSE SetPaths(SetPath(tree, Head(items).k, Head(items).v), Tail(items))

\* the model after the sheets stage and after the projections stage ended as r
SheetsDone(st, r) ==
    [st EXCEPT !.sheets = r.tree,
               !.log = Append(st.log, "setup_sheets"),
               !.err = r.err]
ProjectionsDone(st, r) ==
    [st EXCEPT !.projections = r.tree,
               !.log = Append(st.log, "_compute_projection_specs"),
               !.err = r.err]

\* the body of one stage of setup; st is the model's trees, the hooks invoked
\* so far and the exception raised, if any
RunSetupStage(c, st, stage) ==
    IF stage = "attributes"
    THEN [st EXCEPT !.attrs = SetPaths(st.attrs, c.setup_attributes),
                    !.log = Append(st.log, "setup_attributes")]
    ELSE IF stage = "training_patterns"
    THEN IF ~c.setup_training_patterns.overridden
         THEN [st EXCEPT !.log = Append(st.log, "setup_training_patterns"),
                         !.err = "NotImplementedError"]
         ELSE [st EXCEPT !.training_patterns =
                             SetPaths(st.training_patterns, c.setup_training_patterns.result),
                         !.log = Append(st.log, "setup_training_patterns")]
    ELSE IF stage = "sheets"
    THEN SheetsDone(st, SheetsStage(c, st.sheets))
    ELSE IF stage = "projections"
    THEN ProjectionsDone(st, ProjectionsStage(c, st.sheets, st.projections))
    ELSE \* analysis, line 474: self._setup_analysis()
         IF "_setup_analysis" \in ModelMethods
         THEN [st EXCEPT !.log = Append(st.log, "setup_analysis")]
         ELSE [st EXCEPT !.err = "AttributeError:_setup_analysis"]

\* the stages run one after the other; an exception ends the call
RECURSIVE RunSetupStages(_, _, _)
RunSetupStages(c, st, stages) ==
    IF stages = <<>> \/ st.err # "" THEN st
    ELSE RunSetupStages(c, RunSetupStage(c, st, Head(stages)), Tail(stages))

\* Model.setup
Setup(c, st, setup_options) ==
    RunSetupStages(c, [st EXCEPT !.log = <<>>, !.err = ""], SetupStages(setup_options))

----------------------------------------------------------------------------
(* Model._order_projections *)

connection_order ==
    <<"afferent_projections",
      "afferent_center_projections",
      "afferent_surround_projections",
      "lateral_gain_control_projections",
      "afferent_ON_projections",
      "afferent_OFF_projections",
      "lateral_excitatory_projections",
      "lateral_inhibitory_projections">>

\* list.index: position of the first occurrence (0-based); callers test In first
Index(list, x) == (CHOOSE i \in 1..Len(list) :
                      list[i] = x /\ \A j \in 1..(i - 1) : list[j] # x) - 1

\* the sort key, line 557
Rank(p) == Index(connection_order, p.matchname)

\* variant: the list is left in the order it was given
InsertAtEnd(sorted, p) == Append(sorted, p)

\* variant: an element goes before the elements whose key equals its own
InsertBeforeEqual(sorted, p) ==
    LET n == Cardinality({i \in 1..Len(sorted) : Rank(sorted[i]) < Rank(p)})
    IN SubSeq(sorted, 1, n) \o <<p>> \o SubSeq(sorted, n + 1, Len(sorted))

\* sorted() is stable: an element goes after every element whose key is not
\* greater than its own
InsertByRank(sorted, p) ==
    LET n == Cardinality({i \in 1..Len(sorted) : Rank(sorted[i]) <= Rank(p)})
    IN SubSeq(sorted, 1, n) \o <<p>> \o SubSeq(sorted, n + 1, Len(sorted))

RECURSIVE SortedByRank(_, _)
SortedByRank(done, rest) ==
    IF rest = <<>> THEN done
    ELSE SortedByRank(InsertByRank(done, Head(rest)), Tail(rest))

\* variant: an unranked matchname is dropped instead of raising
order_projections_skipping(projs) ==
    [err |-> "",
     ordered |-> SortedByRank(<<>>,
                    SelectSeq(projs, LAMBDA p : In(p.matchname, connection_order)))]

\* Model._order_projections: sorted() computes every key before it moves
\* anything, so an unranked matchname raises ValueError with nothing returned
order_projections(projs) ==
    IF \E i \in 1..Len(projs) : ~In(projs[i].matchname, connection_order)
    THEN [err |-> "ValueError:connection_order", ordered |-> <<>>]
    ELSE [err |-> "", ordered |-> SortedByRank(<<>>, projs)]

----------------------------------------------------------------------------
(* The runtime, topo.sim: a registry of objects by name, and connect()      *)

\* topo.sim[name] = object
SimRegister(registry, name, object) == SetPath(registry, name, object)

\* the operations a call issues on the runtime, as logged
RegisterEvent(name) ==
    [op |-> "register", name |-> name, src |-> <<>>, dest |-> <<>>,
     pname |-> "", matchname |-> ""]
ConnectEvent(src, dest, pname, matchname) ==
    [op |-> "connect", name |-> <<>>, src |-> src, dest |-> dest,
     pname |-> pname, matchname |-> matchname]

----------------------------------------------------------------------------
(* Model.__call__ *)

available_instantiate_options == <<"sheets", "projections">>

\* lines 577-578
InstantiateOptions(instantiate_options) ==
    IF instantiate_options.all THEN available_instantiate_options
    ELSE instantiate_options.list

\* variant: the stages run in the order the caller listed them
CallStagesAsListed(instantiate_options) == InstantiateOptions(instantiate_options)

\* the two `if '<stage>' in instantiate_options` tests, lines 580 and 585
CallStages(instantiate_options) ==
    SelectSeq(available_instantiate_options,
              LAMBDA stage : In(stage, InstantiateOptions(instantiate_options)))

\* variant: a sheet whose name is already registered is not instantiated again
RECURSIVE InstantiateSheetsOnce(_, _, _)
InstantiateSheetsOnce(c, st, sheet_specs) ==
    IF sheet_specs = <<>> THEN st
    ELSE InstantiateSheetsOnce(c,
            IF HasPath(st.sim, SheetStr(Head(sheet_specs))) THEN st
            ELSE [st EXCEPT
                    !.sim = SimRegister(st.sim, SheetStr(Head(sheet_specs)),
                                [type |-> Head(sheet_specs).sheet_type,
                                 parameters |-> Head(sheet_specs).parameters]),
                    !.log = Append(st.log, RegisterEvent(SheetStr(Head(sheet_specs))))],
            Tail(sheet_specs))

\* variant: the loop goes on to the next sheet after a constructor has raised
RECURSIVE InstantiateSheetsContinuing(_, _, _)
InstantiateSheetsContinuing(c, st, sheet_specs) ==
    IF sheet_specs = <<>> THEN st
    ELSE InstantiateSheetsContinuing(c,
            IF Head(sheet_specs).sheet_type \in c.failing_types
            THEN [st EXCEPT !.err = "InstantiationError"]
            ELSE [st EXCEPT
                    !.sim = SimRegister(st.sim, SheetStr(Head(sheet_specs)),
                                [type |-> Head(sheet_specs).sheet_type,
                                 parameters |-> Head(sheet_specs).parameters]),
                    !.log = Append(st.log, RegisterEvent(SheetStr(Head(sheet_specs))))],
            Tail(sheet_specs))

\* SheetSpec.__call__ for each stored SheetSpec, lines 581-583; the sheet
\* type's constructor raises for the types in c.failing_types
RECURSIVE InstantiateSheets(_, _, _)
InstantiateSheets(c, st, sheet_specs) ==
    IF sheet_specs = <<>> THEN st
    ELSE LET sheet_spec == Head(sheet_specs)
         IN IF sheet_spec.sheet_type \in c.failing_types
            THEN [st EXCEPT !.err = "InstantiationError"]
            ELSE InstantiateSheets(c,
                    [st EXCEPT
                        !.sim = SimRegister(st.sim, SheetStr(sheet_spec),
                                    [type |-> sheet_spec.sheet_type,
                                     parameters |-> sheet_spec.parameters]),
                        !.log = Append(st.log, RegisterEvent(SheetStr(sheet_spec)))],
                    Tail(sheet_specs))

\* ProjectionSpec.__call__ for each ordered projection, lines 588-591
RECURSIVE ConnectProjections(_, _)
ConnectProjections(st, projs) ==
    IF projs = <<>> THEN st
    ELSE LET proj == Head(projs)
         IN ConnectProjections(
                [st EXCEPT !.log = Append(st.log,
                    ConnectEvent(SheetStr(proj.src), SheetStr(proj.dest),
                                 proj.parameters["name"], proj.matchname))],
                Tail(projs))

\* the loop of lines 588-591 over what _order_projections returned
ConnectOrdered(st, r) ==
    IF r.err # "" THEN [st EXCEPT !.err = r.err]
    ELSE ConnectProjections(st, r.ordered)

\* lines 585-591
InstantiateProjections(st, projection_tree) ==
    ConnectOrdered(st, order_projections(Values(projection_tree)))

RunCallStage(c, st, stage, sheet_tree, projection_tree) ==
    IF stage = "sheets" THEN InstantiateSheets(c, st, Values(sheet_tree))
    ELSE InstantiateProjections(st, projection_tree)

RECURSIVE RunCallStages(_, _, _, _, _)
RunCallStages(c, st, stages, sheet_tree, projection_tree) ==
    IF stages = <<>> \/ st.err # "" THEN st
    ELSE RunCallStages(c, RunCallStage(c, st, Head(stages), sheet_tree, projection_tree),
                       Tail(stages), sheet_tree, projection_tree)

\* Model.__call__
Call(c, registry, sheet_tree, projection_tree, instantiate_options) ==
    RunCallStages(c, [sim |-> registry, log |-> <<>>, err |-> ""],
                  CallStages(instantiate_options), sheet_tree, projection_tree)

----------------------------------------------------------------------------
(* Model subclasses: what the hooks return and what the decorators and     *)
(* matchconditions of the class hold.  Python leaves the iteration order   *)
(* of the dicts returned by setup_sheets and compute_conditions open, so   *)
(* every order of each is a subclass of its own.                           *)

sRetina == <<"R", "e", "t", "i", "n", "a">>
sV1 == <<"V", "1">>
sV11 == <<"V", "1", "1">>
sLGN == <<"L", "G", "N">>

Decl(kind, specs) == [kind |-> kind, specs |-> specs]
Cond(items) == [none |-> FALSE, items |-> items]
NoneCond == [none |-> TRUE, items |-> <<>>]
Dict(d) == [isDict |-> TRUE, dict |-> d, list |-> <<>>]
ListOf(l) == [isDict |-> FALSE, dict |-> EmptyParams, list |-> l]
Hook(result) == [overridden |-> TRUE, result |-> result]
NotOverridden == [overridden |-> FALSE, result |-> <<>>]

RetinaSheet == Item(sRetina, [type |-> "GeneratorSheet", fn |-> [period |-> "1.0"]])
V1Sheet == Item(sV1, [type |-> "SettlingCFSheet", fn |-> [tsettle |-> "16"]])
V11Sheet == Item(sV11, [type |-> "CFSheet", fn |-> [tsettle |-> "9"]])
LGNSheet == Item(sLGN, [type |-> "JointNormalizingCFSheet", fn |-> [measure_maps |-> "False"]])

FromRetina == Cond(<<Item("level", StrV(sRetina))>>)
FromV1 == Cond(<<Item("level", StrV(sV1))>>)
FromV11 == Cond(<<Item("level", StrV(sV11))>>)

Afferent == Item("afferent_projections",
    [type |-> "CFProjection", fn |-> Dict([name |-> "Afferent", strength |-> "1.0"])])
AfferentLags == Item("afferent_projections",
    [type |-> "CFProjection",
     fn |-> ListOf(<<[name |-> "AfferentLag0", delay |-> "0"],
                     [name |-> "AfferentLag1", delay |-> "1"]>>)])
LateralInhibitory == Item("lateral_inhibitory_projections",
    [type |-> "CFProjection", fn |-> Dict([name |-> "LateralInhibitory", strength |-> "-1.0"])])
LateralExcitatory == Item("lateral_excitatory_projections",
    [type |-> "CFProjection", fn |-> Dict([name |-> "LateralExcitatory"])])
Feedback == Item("feedback_projections",
    [type |-> "SharedWeightCFProjection", fn |-> Dict([name |-> "Feedback"])])
Unnamed == Item("afferent_projections",
    [type |-> "CFProjection", fn |-> Dict([strength |-> "1.0"])])

\* label functions whose parameter sets share names, or that return no set
AfferentRepeated == Item("afferent_projections",
    [type |-> "CFProjection",
     fn |-> ListOf(<<[name |-> "Lag", delay |-> "0"],
                     [name |-> "Other", delay |-> "0"],
                     [name |-> "Lag", delay |-> "1"]>>)])
AfferentCenter == Item("afferent_center_projections",
    [type |-> "SharedWeightCFProjection", fn |-> Dict([name |-> "Other", strength |-> "2.0"])])
LateralNone == Item("lateral_excitatory_projections",
    [type |-> "CFProjection", fn |-> ListOf(<<>>)])

BaseModel ==
    [name |-> "",
     setup_attributes |-> <<Item("Lags", "1")>>,
     setup_training_patterns |-> Hook(<<Item("Retina", "Gaussian")>>),
     setup_sheets |-> NotOverridden,
     sheet_decorators |-> <<RetinaSheet, V1Sheet, V11Sheet, LGNSheet>>,
     matchconditions |-> <<>>,
     projection_decorators |-> <<Afferent, LateralInhibitory, LateralExcitatory, Feedback>>,
     failing_types |-> {}]

\* sheets A (Retina) and B (V1); V1 receives from level Retina
TwoSheets ==
    [BaseModel EXCEPT
        !.name = "TwoSheets",
        !.setup_sheets = Hook(<<Item(sRetina, Decl("Identity", <<>>)),
                                Item(sV1, Decl("List", << <<>> >>))>>),
        !.matchconditions = <<Item(sV1, <<Item("afferent_projections", FromRetina)>>)>>]

\* {'Retina': [{}], 'V1': [{'SF': 1}, {'SF': 2}]}
EndToEnd ==
    [BaseModel EXCEPT
        !.name = "EndToEnd",
        !.setup_sheets = Hook(<<Item(sRetina, Decl("List", << <<>> >>)),
                                Item(sV1, Decl("List", << <<Item("SF", IntV(1))>>,
                                                          <<Item("SF", IntV(2))>> >>))>>),
        !.matchconditions = <<Item(sV1, <<Item("afferent_projections", FromRetina)>>)>>]

\* V1 receives from Retina (one projection per lag) and from itself
Lateral ==
    [BaseModel EXCEPT
        !.name = "Lateral",
        !.setup_sheets = Hook(<<Item(sRetina, Decl("Identity", <<>>)),
                                Item(sV1, Decl("Args", << <<>> >>))>>),
        !.matchconditions =
            <<Item(sV1, <<Item("lateral_inhibitory_projections", FromV1),
                          Item("afferent_projections", FromRetina)>>)>>,
        !.projection_decorators = <<AfferentLags, LateralInhibitory>>]

\* a matchcondition whose name _order_projections does not rank
Unranked ==
    [BaseModel EXCEPT
        !.name = "Unranked",
        !.setup_sheets = Hook(<<Item(sRetina, Decl("Identity", <<>>)),
                                Item(sV1, Decl("List", << <<>> >>))>>),
        !.matchconditions =
            <<Item(sV1, <<Item("afferent_projections", FromRetina),
                          Item("feedback_projections", FromV1)>>)>>]

\* identities that collide: V1 + 11 and V11 + 1, and a key outside name_ordering
Collision ==
    [BaseModel EXCEPT
        !.name = "Collision",
        !.setup_training_patterns = NotOverridden,
        !.setup_sheets = Hook(<<Item(sV1, Decl("List",
                                    << <<Item("note", StrV(<<"a">>)), Item("SF", IntV(1))>>,
                                       <<Item("SF", IntV(1)), Item("note", StrV(<<"b">>))>>,
                                       <<Item("SF", IntV(11))>> >>)),
                                Item(sV11, Decl("List", << <<Item("SF", IntV(1))>> >>))>>),
        !.matchconditions =
            <<Item(sV1, <<Item("lateral_excitatory_projections", FromV11)>>),
              Item(sV11, <<Item("afferent_projections", NoneCond)>>)>>]

\* a sheet type whose constructor raises
Failing ==
    [BaseModel EXCEPT
        !.name = "Failing",
        !.setup_attributes = <<>>,
        !.setup_sheets = Hook(<<Item(sRetina, Decl("Identity", <<>>)),
                                Item(sV1, Decl("List", << <<>> >>))>>),
        !.matchconditions = <<Item(sV1, <<Item("afferent_projections", FromRetina)>>)>>,
        !.failing_types = {"SettlingCFSheet"}]

\* a level without a decorator, a label function without 'name'
Misconfigured ==
    [BaseModel EXCEPT
        !.name = "Misconfigured",
        !.setup_sheets = Hook(<<Item(sRetina, Decl("Identity", <<>>)),
                                Item(sV1, Decl("List", << <<>> >>))>>),
        !.sheet_decorators = <<RetinaSheet>>,
        !.matchconditions = <<Item(sRetina, <<Item("afferent_projections", FromRetina)>>)>>,
        !.projection_decorators = <<Unnamed>>]

\* setup_sheets is not overridden
Abstract == [BaseModel EXCEPT !.name = "Abstract"]

\* the only level is declared with an empty list
Empty ==
    [BaseModel EXCEPT
        !.name = "Empty",
        !.setup_sheets = Hook(<<Item(sLGN, Decl("List", <<>>))>>),
        !.matchconditions = <<Item(sLGN, <<Item("afferent_projections", FromRetina)>>)>>]

\* two conditions of V1 match the Retina and their label functions use the
\* same names; V1 matches its own lateral condition, whose label function
\* returns an empty list
Overlapping ==
    [BaseModel EXCEPT
        !.name = "Overlapping",
        !.setup_training_patterns = NotOverridden,
        !.setup_sheets = Hook(<<Item(sRetina, Decl("Identity", <<>>)),
                                Item(sV1, Decl("Args", << <<>> >>))>>),
        !.matchconditions =
            <<Item(sV1, <<Item("afferent_projections", FromRetina),
                          Item("afferent_center_projections", FromRetina),
                          Item("lateral_excitatory_projections", FromV1)>>)>>,
        !.projection_decorators = <<AfferentRepeated, AfferentCenter, LateralNone>>]

BaseModels ==
    {TwoSheets, EndToEnd, Lateral, Unranked, Collision, Failing, Misconfigured,
     Abstract, Empty, Overlapping}

\* every order of a sequence
Perms(seq) ==
    {[i \in 1..Len(seq) |-> seq[p[i]]] :
        p \in {q \in [1..Len(seq) -> 1..Len(seq)] :
                 \A i, j \in 1..Len(seq) : q[i] = q[j] => i = j}}

\* every iteration order of each level's conditions dict
ConditionOrders(mc) ==
    {[i \in 1..Len(mc) |-> Item(mc[i].k, ch[i])] :
        ch \in {f \in [1..Len(mc) -> UNION {Perms(mc[i].v) : i \in 1..Len(mc)}] :
                  \A i \in 1..Len(mc) : f[i] \in Perms(mc[i].v)}}

DictOrders(c) ==
    {[c EXCEPT !.setup_sheets.result = levels, !.matchconditions = mc] :
        levels \in Perms(c.setup_sheets.result),
        mc \in ConditionOrders(c.matchconditions)}

Models == UNION {DictOrders(c) : c \in BaseModels}

----------------------------------------------------------------------------
(* The state machine *)

\* no Specification is held on its own, and nothing was updated
NoSpecification == [parameters |-> EmptyParams]
NoUpdate == [applied |-> FALSE, patch |-> EmptyParams, before |-> EmptyParams]

\* the arguments setup is called with
SetupArguments ==
    {True} \cup {List(l) : l \in
        {<<>>, <<"attributes">>, <<"training_patterns">>, <<"sheets">>,
         <<"projections">>, <<"analysis">>,
         <<"sheets", "projections">>, <<"projections", "sheets">>,
         <<"sheets", "sheets">>,
         <<"projections", "sheets", "training_patterns", "attributes">>}}

\* the arguments __call__ is called with
CallArguments ==
    {True} \cup {List(l) : l \in
        {<<>>, <<"sheets">>, <<"projections">>,
         <<"sheets", "projections">>, <<"projections", "sheets">>}}

Trees == [attrs |-> attrs, training_patterns |-> training_patterns,
          sheets |-> sheets, projections |-> projections, log |-> <<>>, err |-> ""]

Init ==
    /\ cfg \in Models
    /\ phase = "new"
    /\ attrs = <<>>
    /\ training_patterns = <<>>
    /\ sheets = <<>>
    /\ projections = <<>>
    /\ sim = <<>>
    /\ simBefore = <<>>
    /\ callLog = <<>>
    /\ setupLog = <<>>
    /\ lastOp = [kind |-> "none", opts |-> True]
    /\ err = ""
    /\ nSetups = 0
    /\ nCalls = 0
    /\ given = <<>>
    /\ built = <<>>
    /\ target = NoSpecification
    /\ lastUpdate = NoUpdate

\* the effect of self.setup(setup_options) on the model
DoSetup(setup_options) ==
    \E r \in {Setup(cfg, Trees, setup_options)} :
       /\ attrs' = r.attrs
       /\ training_patterns' = r.training_patterns
       /\ sheets' = r.sheets
       /\ projections' = r.projections
       /\ setupLog' = r.log
       /\ err' = r.err
       /\ lastOp' = [kind |-> "setup", opts |-> setup_options]

\* Model.__init__: empty trees, then setup; the object exists only if
\* __init__ returns
Construct(setup_options) ==
    /\ phase = "new"
    /\ DoSetup(setup_options)
    /\ phase' = IF err' = "" THEN "ready" ELSE "failed"
    /\ UNCHANGED <<cfg, sim, simBefore, callLog, nSetups, nCalls, given, built,
                   target, lastUpdate>>

\* a later call of Model.setup
SetupAgain(setup_options) ==
    /\ phase = "ready"
    /\ nSetups < MaxSetups
    /\ DoSetup(setup_options)
    /\ nSetups' = nSetups + 1
    /\ UNCHANGED <<cfg, phase, sim, simBefore, callLog, nCalls, given, built,
                   target, lastUpdate>>

\* Model.__call__
Instantiate(instantiate_options) ==
    /\ phase = "ready"
    /\ nCalls < MaxCalls
    /\ \E r \in {Call(cfg, sim, sheets, projections, instantiate_options)} :
          /\ sim' = r.sim
          /\ callLog' = r.log
          /\ err' = r.err
    /\ simBefore' = sim
    /\ lastOp' = [kind |-> "call", opts |-> instantiate_options]
    /\ nCalls' = nCalls + 1
    /\ UNCHANGED <<cfg, phase, attrs, training_patterns, sheets, projections,
                   setupLog, nSetups, given, built, target, lastUpdate>>

Next ==
    \/ \E o \in SetupArguments : Construct(o)
    \/ \E o \in SetupArguments : SetupAgain(o)
    \/ \E o \in CallArguments : Instantiate(o)

Spec == Init /\ [][Next]_vars

----------------------------------------------------------------------------
(* SheetSpec construction on its own: a properties dict drawn from a       *)
(* bounded set, and SheetSpecs constructed from it and from the same       *)
(* assignments inserted in another order.                                  *)

PropertyKeys == {"level", "SF", "eye", "note"}
PropertyValues == {StrV(sV1), IntV(1), IntV(12)}

\* the dicts of at most MaxProperties items over these keys and values
PropertyDicts ==
    {d \in UNION {[1..n -> {Item(k, v) : k \in PropertyKeys, v \in PropertyValues}] :
                    n \in 1..MaxProperties} :
        \A i, j \in 1..Len(d) : d[i].k = d[j].k => i = j}

InitSheetSpec ==
    /\ cfg = BaseModel
    /\ phase = "new"
    /\ attrs = <<>>
    /\ training_patterns = <<>>
    /\ sheets = <<>>
    /\ projections = <<>>
    /\ sim = <<>>
    /\ simBefore = <<>>
    /\ callLog = <<>>
    /\ setupLog = <<>>
    /\ lastOp = [kind |-> "none", opts |-> True]
    /\ err = ""
    /\ nSetups = 0
    /\ nCalls = 0
    /\ given \in PropertyDicts
    /\ built = <<>>
    /\ target = NoSpecification
    /\ lastUpdate = NoUpdate

\* SheetSpec(sheet_type, properties) and SheetSpec(sheet_type, reordered)
ConstructSheetSpecs(reordered) ==
    /\ built = <<>>
    /\ built' = <<[given |-> given,
                   made |-> SheetSpecInit("Sheet", TypeDefaults("Sheet"), given)],
                  [given |-> reordered,
                   made |-> SheetSpecInit("Sheet", TypeDefaults("Sheet"), reordered)]>>
    /\ UNCHANGED <<cfg, phase, attrs, training_patterns, sheets, projections, sim,
                   simBefore, callLog, setupLog, lastOp, err, nSetups, nCalls,
                   given, target, lastUpdate>>

NextSheetSpec == \E reordered \in Perms(given) : ConstructSheetSpecs(reordered)

SpecSheetSpec == InitSheetSpec /\ [][NextSheetSpec]_vars

----------------------------------------------------------------------------
(* Specification.update_parameters on its own: a Specification whose       *)
(* parameters are drawn from a bounded set, updated again and again with   *)
(* patches drawn from the same set.                                        *)

ParameterKeys == {"name", "strength", "delay"}
ParameterValues == {"0", "1"}
ParameterDicts == UNION {[K -> ParameterValues] : K \in SUBSET ParameterKeys}

InitUpdate ==
    /\ cfg = BaseModel
    /\ phase = "new"
    /\ attrs = <<>>
    /\ training_patterns = <<>>
    /\ sheets = <<>>
    /\ projections = <<>>
    /\ sim = <<>>
    /\ simBefore = <<>>
    /\ callLog = <<>>
    /\ setupLog = <<>>
    /\ lastOp = [kind |-> "none", opts |-> True]
    /\ err = ""
    /\ nSetups = 0
    /\ nCalls = 0
    /\ given = <<>>
    /\ built = <<>>
    /\ target \in {[parameters |-> d] : d \in ParameterDicts}
    /\ lastUpdate = NoUpdate

\* target.update_parameters(params)
UpdateParameters(params) ==
    /\ target' = update_parameters(target, params)
    /\ lastUpdate' = [applied |-> TRUE, patch |-> params, before |-> target.parameters]
    /\ UNCHANGED <<cfg, phase, attrs, training_patterns, sheets, projections, sim,
                   simBefore, callLog, setupLog, lastOp, err, nSetups, nCalls,
                   given, built>>

NextUpdate == \E params \in ParameterDicts : UpdateParameters(params)

SpecUpdate == InitUpdate /\ [][NextUpdate]_vars

----------------------------------------------------------------------------
(* A Model that is set up and called, or a SheetSpec that is constructed    *)
(* directly from a properties dict: the two ways a SheetSpec comes to be.   *)

InitEither == Init \/ InitSheetSpec

NextEither ==
    \/ given = <<>> /\ Next
    \/ given # <<>> /\ NextSheetSpec

SpecEither == InitEither /\ [][NextEither]_vars

----------------------------------------------------------------------------
(* A Model that is constructed with setup_options ['sheets', 'projections'] *)
(* and on which setup is only ever called with the same options again; the *)
(* hooks and the registered functions are those of cfg throughout.         *)

SheetsAndProjections == List(<<"sheets", "projections">>)

NextRerun ==
    \/ Construct(SheetsAndProjections)
    \/ SetupAgain(SheetsAndProjections)
    \/ \E o \in CallArguments : Instantiate(o)

SpecRerun == Init /\ [][NextRerun]_vars

----------------------------------------------------------------------------
(* Properties *)

Selected(stage) ==
    IF lastOp.kind = "setup" THEN In(stage, SetupOptions(lastOp.opts))
    ELSE lastOp.kind = "call" /\ In(stage, InstantiateOptions(lastOp.opts))

IsConnect(k) == callLog[k].op = "connect"
IsRegister(k) == callLog[k].op = "register"
Connects == {k \in 1..Len(callLog) : IsConnect(k)}

\* the names in the runtime registry when operation k of the last call was issued
RegisteredAt(k) ==
    Paths(simBefore) \cup {callLog[i].name : i \in {j \in 1..(k - 1) : IsRegister(j)}}

Ranked(proj) == In(proj.matchname, connection_order)
RankOf(matchname) ==
    CHOOSE r \in 0..(Len(connection_order) - 1) : connection_order[r + 1] = matchname

\* C1: in a call that reaches the projections stage, every stored projection
\* is connected once, and the connections are made in non-decreasing rank of
\* the matchname in connection_order, whatever the order of the projections
\* tree; an afferent_projections one is never connected after a
\* lateral_inhibitory_projections one.
C1_ConnectedInRankOrder ==
    (lastOp.kind = "call" /\ Selected("projections") /\ err = "") =>
        /\ Cardinality(Connects) = Len(projections)
        /\ \A i \in 1..Len(projections) :
              \E k \in Connects :
                 /\ callLog[k].src = SheetStr(projections[i].val.src)
                 /\ callLog[k].dest = SheetStr(projections[i].val.dest)
                 /\ callLog[k].pname = projections[i].val.parameters["name"]
                 /\ callLog[k].matchname = projections[i].val.matchname
        /\ \A i, j \in Connects :
              i < j =>
                 /\ RankOf(callLog[i].matchname) <= RankOf(callLog[j].matchname)
                 /\ ~(/\ callLog[i].matchname = "lateral_inhibitory_projections"
                      /\ callLog[j].matchname = "afferent_projections")

\* the lateral projection was stored before an afferent one and connected after it
C1_Witness ==
    /\ lastOp.kind = "call" /\ err = ""
    /\ \E i, j \in 1..Len(projections) :
          /\ i < j
          /\ projections[i].val.matchname = "lateral_inhibitory_projections"
          /\ projections[j].val.matchname = "afferent_projections"
    /\ \E i, j \in Connects :
          /\ i < j
          /\ callLog[i].matchname = "afferent_projections"
          /\ callLog[j].matchname = "lateral_inhibitory_projections"

UnrankedStored == \E i \in 1..Len(projections) : ~Ranked(projections[i].val)

\* C2: when a stored ProjectionSpec has a matchname outside connection_order,
\* a call that selects the projections stage ends in an error and connects no
\* projection, the ranked ones included.
C2_UnrankedConnectsNothing ==
    (lastOp.kind = "call" /\ Selected("projections") /\ UnrankedStored) =>
        /\ Connects = {}
        /\ \/ err = "ValueError:connection_order"
           \/ err = "InstantiationError" /\ Selected("sheets")

\* a ranked and an unranked projection are stored, the sheets were registered,
\* and the call ended with the ValueError
C2_Witness ==
    /\ lastOp.kind = "call" /\ Selected("projections") /\ Selected("sheets")
    /\ UnrankedStored
    /\ \E i \in 1..Len(projections) : Ranked(projections[i].val)
    /\ err = "ValueError:connection_order"
    /\ callLog # <<>>
    /\ Connects = {}

\* C3 as stated: whatever the options, the sheets named by a projection's src
\* and dest are registered when the projection is connected.
C3_SheetsRegisteredAtEveryConnect ==
    lastOp.kind = "call" =>
        \A k \in Connects :
            /\ callLog[k].src \in RegisteredAt(k)
            /\ callLog[k].dest \in RegisteredAt(k)

\* C3, amended: when both stages are selected (True, or both names in either
\* order) every stored sheet is registered by the call before its first
\* connection, so src and dest are registered at each connection; a call
\* that selects projections alone registers nothing, so there the registry
\* is what earlier calls left.
C3_SheetsFirstWhenBothSelected ==
    lastOp.kind = "call" =>
        /\ (Selected("sheets") /\ Selected("projections")) =>
              \A k \in Connects :
                 /\ \A i \in 1..Len(sheets) :
                       \E j \in 1..(k - 1) :
                          IsRegister(j) /\ callLog[j].name = sheets[i].path
                 /\ callLog[k].src \in RegisteredAt(k)
                 /\ callLog[k].dest \in RegisteredAt(k)
        /\ (~Selected("sheets")) =>
              \A k \in 1..Len(callLog) :
                 IsConnect(k) /\ RegisteredAt(k) = Paths(simBefore)

\* the caller listed projections first; the sheets were registered first
C3_Witness ==
    /\ lastOp.kind = "call"
    /\ lastOp.opts = List(<<"projections", "sheets">>)
    /\ simBefore = <<>>
    /\ err = ""
    /\ Connects # {}

HookOf(stage) ==
    IF stage = "attributes" THEN "setup_attributes"
    ELSE IF stage = "training_patterns" THEN "setup_training_patterns"
    ELSE IF stage = "sheets" THEN "setup_sheets"
    ELSE IF stage = "projections" THEN "_compute_projection_specs"
    ELSE "setup_analysis"

\* the hooks of the selected stages, in the fixed order
SelectedHooks ==
    LET stages == SelectSeq(<<"attributes", "training_patterns", "sheets",
                             "projections", "analysis">>,
                            LAMBDA stage : Selected(stage))
    IN [i \in 1..Len(stages) |-> HookOf(stages[i])]

\* the exceptions a hook of setup raises
HookErrors ==
    {"NotImplementedError", "KeyError:sheet_types", "TypeError:level",
     "Exception:level", "Exception:nolabel", "KeyError:projection_types",
     "KeyError:name"}

\* C4: unless one of the hooks raises, setup invokes the hook of every
\* selected stage exactly once, in the order attributes, training_patterns,
\* sheets, projections, analysis, and no other hook.
C4_SelectedStagesRunOnceInOrder ==
    (lastOp.kind = "setup" /\ err \notin HookErrors) => setupLog = SelectedHooks

\* the part of C4 about unselected stages: a setup leaves the tree of every
\* stage it was not asked for as it was
UnselectedTreesUnchanged ==
    [][lastOp'.kind = "setup" =>
          /\ ~In("attributes", SetupOptions(lastOp'.opts)) => attrs' = attrs
          /\ ~In("training_patterns", SetupOptions(lastOp'.opts)) =>
                training_patterns' = training_patterns
          /\ ~In("sheets", SetupOptions(lastOp'.opts)) => sheets' = sheets
          /\ ~In("projections", SetupOptions(lastOp'.opts)) =>
                projections' = projections]_vars

\* the part of C5 about the trees: a setup of the analysis stage alone
\* changes none of them
AnalysisLeavesTreesUnchanged ==
    [][(lastOp'.kind = "setup" /\ lastOp'.opts = List(<<"analysis">>)) =>
          UNCHANGED <<attrs, training_patterns, sheets, projections>>]_vars

\* C5: a setup that selects the analysis stage does not fail in that stage.
C5_AnalysisStageCompletes ==
    (lastOp.kind = "setup" /\ Selected("analysis")) =>
        err # "AttributeError:_setup_analysis"


ProjectionsFrom(src, dest) ==
    {i \in 1..Len(projections) :
        /\ SheetStr(projections[i].val.src) = src
        /\ SheetStr(projections[i].val.dest) = dest}

\* the last setup ran the projections stage
ProjectionsComputed == In("_compute_projection_specs", setupLog)

\* only level V1 has a match condition, it requires level to contain
\* 'Retina', and its label function returns one parameter mapping
OnlyV1ReceivesFromRetina ==
    /\ cfg.matchconditions =
          <<Item(sV1, <<Item("afferent_projections",
                             Cond(<<Item("level", StrV(sRetina))>>))>>)>>
    /\ HasKey(projection_labels(cfg), "afferent_projections")
    /\ Get(projection_labels(cfg), "afferent_projections").isDict
    /\ "name" \in DOMAIN Get(projection_labels(cfg), "afferent_projections").dict

\* C6: with sheets A (level Retina) and B (level V1) stored and the single
\* condition above, the projections stage leaves exactly one ProjectionSpec,
\* from A to B, and none from B to A.
C6_OneProjectionFromRetinaToV1 ==
    (/\ OnlyV1ReceivesFromRetina
     /\ Len(sheets) = 2
     /\ Paths(sheets) = {sRetina, sV1}
     /\ Level(GetPath(sheets, sRetina)).s = sRetina
     /\ Level(GetPath(sheets, sV1)).s = sV1
     /\ ProjectionsComputed) =>
        /\ Len(projections) = 1
        /\ Cardinality(ProjectionsFrom(sRetina, sV1)) = 1
        /\ ProjectionsFrom(sV1, sRetina) = {}

\* both sheets are stored, V1 before Retina, and the stage has run
C6_Witness ==
    /\ OnlyV1ReceivesFromRetina
    /\ Len(sheets) = 2
    /\ sheets[1].path = sV1
    /\ sheets[2].path = sRetina
    /\ ProjectionsComputed
    /\ Len(projections) = 1

\* setup_sheets returns {'Retina': [{}], 'V1': [{'SF': 1}, {'SF': 2}]}
DeclaresRetinaAndTwoV1 ==
    /\ cfg.setup_sheets.overridden
    /\ {cfg.setup_sheets.result[i] : i \in 1..Len(cfg.setup_sheets.result)} =
          {Item(sRetina, Decl("List", << <<>> >>)),
           Item(sV1, Decl("List", << <<Item("SF", IntV(1))>>,
                                     <<Item("SF", IntV(2))>> >>))}

\* C7: for that model the sheets stage leaves exactly three SheetSpecs, at
\* 'Retina', 'V11' and 'V12', and the projections stage with the single
\* condition 'V1 receives from Retina' (one parameter mapping) then leaves
\* exactly two ProjectionSpecs, one into each V1 sheet, both from 'Retina'.
C7_ThreeSheetsTwoProjections ==
    (DeclaresRetinaAndTwoV1 /\ OnlyV1ReceivesFromRetina) =>
        /\ sheets # <<>> =>
              /\ Len(sheets) = 3
              /\ Paths(sheets) = {<<"R", "e", "t", "i", "n", "a">>,
                                  <<"V", "1", "1">>, <<"V", "1", "2">>}
        /\ (sheets # <<>> /\ ProjectionsComputed) =>
              /\ Len(projections) = 2
              /\ \A i \in 1..Len(projections) :
                    SheetStr(projections[i].val.src) = <<"R", "e", "t", "i", "n", "a">>
              /\ Cardinality(ProjectionsFrom(sRetina, <<"V", "1", "1">>)) = 1
              /\ Cardinality(ProjectionsFrom(sRetina, <<"V", "1", "2">>)) = 1
        /\ (sheets = <<>>) => projections = <<>>

\* setup(['sheets']) at construction, then setup(['projections'])
C7_Witness ==
    /\ DeclaresRetinaAndTwoV1 /\ OnlyV1ReceivesFromRetina
    /\ lastOp = [kind |-> "setup", opts |-> List(<<"projections">>)]
    /\ Len(sheets) = 3
    /\ Len(projections) = 2

\* str of the value of key in the dict d, '' without the key
ValueStr(d, key) == IF HasKey(d, key) THEN Str(Get(d, key)) ELSE <<>>

\* C8: the identity of a SheetSpec is the concatenation of the strings of
\* the values of eye, level, cone, polarity, SF, opponent and surround, in
\* that order and skipping absent keys; other keys add nothing, and the same
\* assignments inserted in another order give the same identity.
C8_IdentityInCanonicalOrder ==
    (built # <<>> /\ built[1].made.err = "") =>
        /\ SheetStr(built[1].made.spec) =
              ValueStr(built[1].given, "eye") \o ValueStr(built[1].given, "level")
              \o ValueStr(built[1].given, "cone") \o ValueStr(built[1].given, "polarity")
              \o ValueStr(built[1].given, "SF") \o ValueStr(built[1].given, "opponent")
              \o ValueStr(built[1].given, "surround")
        /\ built[2].made.err = ""
        /\ SheetStr(built[2].made.spec) = SheetStr(built[1].made.spec)

\* SF was inserted before level in one dict and after it in the other, and a
\* key outside the canonical list is present
C8_Witness ==
    /\ built # <<>>
    /\ built[1].made.err = ""
    /\ Len(built[1].given) = 3
    /\ built[1].given[1].k = "SF"
    /\ built[2].given[1].k = "level"
    /\ HasKey(built[1].given, "note")
    /\ Len(SheetStr(built[1].made.spec)) = 4

\* the (level, properties) pairs setup_sheets declares, in iteration order,
\* each with the SheetSpec line 467 makes of it
RECURSIVE DeclaredSpecs(_)
DeclaredSpecs(levels) ==
    IF levels = <<>> THEN <<>>
    ELSE LET level == Head(levels).k
             plist == PropertyList(Head(levels).v)
         IN [i \in 1..Len(plist) |->
                SheetSpecInit(Get(sheet_types(cfg), level), EmptyParams,
                              <<Item("level", StrV(level))>> \o plist[i]).spec]
            \o DeclaredSpecs(Tail(levels))

\* the last setup ran the sheets stage to its end
SheetsStageCompleted ==
    /\ lastOp.kind = "setup"
    /\ In("setup_sheets", setupLog)
    /\ err \in {"", "AttributeError:_setup_analysis"}
          \/ setupLog[Len(setupLog)] # "setup_sheets"

\* C9: every stored SheetSpec sits at the path that is its own identity, no
\* two entries share a path, and once the sheets stage has completed each
\* declared identity holds the SheetSpec of the last (level, properties) pair
\* declared with that identity: a collision raises nothing.
C9_StoredAtIdentityLastWins ==
    /\ \A i \in 1..Len(sheets) : sheets[i].path = SheetStr(sheets[i].val)
    /\ \A i, j \in 1..Len(sheets) : sheets[i].path = sheets[j].path => i = j
    /\ SheetsStageCompleted =>
          LET declared == DeclaredSpecs(cfg.setup_sheets.result)
          IN \A k \in 1..Len(declared) :
                (\A m \in (k + 1)..Len(declared) :
                    SheetStr(declared[m]) # SheetStr(declared[k])) =>
                   /\ HasPath(sheets, SheetStr(declared[k]))
                   /\ GetPath(sheets, SheetStr(declared[k])).properties =
                         declared[k].properties
                   /\ GetPath(sheets, SheetStr(declared[k])).sheet_type =
                         declared[k].sheet_type

\* two pairs declared at different levels have the same identity, the sheets
\* stage ended without an exception and the later pair is the one stored
C9_Witness ==
    /\ lastOp = [kind |-> "setup", opts |-> List(<<"sheets">>)]
    /\ err = ""
    /\ LET declared == DeclaredSpecs(cfg.setup_sheets.result)
       IN \E k, m \in 1..Len(declared) :
             /\ k < m
             /\ SheetStr(declared[k]) = SheetStr(declared[m])
             /\ Level(declared[k]) # Level(declared[m])
             /\ \A n \in (m + 1)..Len(declared) :
                   SheetStr(declared[n]) # SheetStr(declared[m])
             /\ Level(GetPath(sheets, SheetStr(declared[m]))) = Level(declared[m])

\* C10: a call with ['sheets'] that returns registers each stored SheetSpec
\* exactly once, in tree order, under its identity; afterwards the names in
\* the registry are the stored identities, and the sheets and projections
\* trees are as they were, however many calls came before.
C10_SheetsCallRegistersEachOnce ==
    [][(/\ lastOp'.kind = "call"
        /\ lastOp'.opts = List(<<"sheets">>)
        /\ err' = "") =>
           /\ Len(callLog') = Len(sheets)
           /\ \A i \in 1..Len(sheets) :
                 callLog'[i] = RegisterEvent(SheetStr(sheets[i].val))
           /\ Paths(sim') = {SheetStr(sheets[i].val) : i \in 1..Len(sheets)}
           /\ sheets' = sheets
           /\ projections' = projections]_vars

\* the second of two calls: every stored sheet was already registered and is
\* registered again
C10_Witness ==
    /\ lastOp = [kind |-> "call", opts |-> List(<<"sheets">>)]
    /\ nCalls = 2
    /\ err = ""
    /\ Len(sheets) >= 2
    /\ Paths(simBefore) = Paths(sheets)
    /\ Len(callLog) = Len(sheets)

\* the stored sheets whose constructor raises
FailingSheets == {i \in 1..Len(sheets) : sheets[i].val.sheet_type \in cfg.failing_types}
FirstFailing == CHOOSE k \in FailingSheets : \A i \in FailingSheets : k <= i

\* C11: a call that selects the sheets stage while the constructor of the
\* k-th stored sheet raises ends with that exception; it has registered the
\* k-1 sheets before it, in tree order, and they stay in the registry with
\* everything that was registered before the call; no sheet from the k-th on
\* is registered by the call and no projection is connected.
C11_SheetFailureAbortsWithoutRollback ==
    [][(/\ lastOp'.kind = "call"
        /\ In("sheets", InstantiateOptions(lastOp'.opts))
        /\ FailingSheets # {}) =>
           /\ err' = "InstantiationError"
           /\ Len(callLog') = FirstFailing - 1
           /\ \A i \in 1..(FirstFailing - 1) :
                 /\ callLog'[i] = RegisterEvent(sheets[i].path)
                 /\ HasPath(sim', sheets[i].path)
                 /\ GetPath(sim', sheets[i].path).type = sheets[i].val.sheet_type
           /\ Paths(sim') = Paths(sim) \cup {sheets[i].path : i \in 1..(FirstFailing - 1)}
           /\ \A i \in 1..Len(sim) :
                 (\A j \in 1..(FirstFailing - 1) : sheets[j].path # sim[i].path) =>
                    GetPath(sim', sim[i].path) = sim[i].val]_vars

\* the second stored sheet failed in a call for everything: the first is
\* registered, the second is not, and nothing was connected although a
\* projection is stored
C11_Witness ==
    /\ lastOp = [kind |-> "call", opts |-> True]
    /\ err = "InstantiationError"
    /\ Len(sheets) = 2
    /\ FirstFailing = 2
    /\ projections # <<>>
    /\ simBefore = <<>>
    /\ Paths(sim) = {sheets[1].path}
    /\ callLog = <<RegisterEvent(sheets[1].path)>>

\* C12: once a __call__ has been made, no later operation on the model (a
\* __call__ or a setup) adds or replaces an entry of the sheets or
\* projections tree or changes a stored SheetSpec or ProjectionSpec.
C12_SpecsFrozenAfterInstantiation ==
    [][nCalls >= 1 => (sheets' = sheets /\ projections' = projections)]_vars

\* the part of C12 about __call__ itself: it leaves both trees and every
\* stored specification as they were
CallLeavesSpecsUnchanged ==
    [][lastOp'.kind = "call" => (sheets' = sheets /\ projections' = projections)]_vars

\* setup_sheets declares a level that no decorated level function is
\* registered for, and no declared properties dict has a 'level' key of its own
DeclaresUnlabelledLevel ==
    /\ cfg.setup_sheets.overridden
    /\ \E i \in 1..Len(cfg.setup_sheets.result) :
          ~HasKey(sheet_labels(cfg), cfg.setup_sheets.result[i].k)
    /\ \A i \in 1..Len(cfg.setup_sheets.result) :
          \A j \in 1..Len(PropertyList(cfg.setup_sheets.result[i].v)) :
             ~HasKey(PropertyList(cfg.setup_sheets.result[i].v)[j], "level")

\* the setup just made reached its sheets stage
ReachesSheetsStage(setup_options) ==
    /\ In("sheets", SetupOptions(setup_options))
    /\ In("training_patterns", SetupOptions(setup_options)) =>
          cfg.setup_training_patterns.overridden

\* no SheetSpec stored in tree has parameters merged in by the setup just
\* made: each is as it was stored before, or holds its type's defaults only
NothingMerged(before, tree) ==
    \A i \in 1..Len(tree) :
       \/ HasPath(before, tree[i].path) /\ GetPath(before, tree[i].path) = tree[i].val
       \/ tree[i].val.parameters = TypeDefaults(tree[i].val.sheet_type)

\* C13 as stated: the error is the one raised by the sheet_labels lookup of
\* _update_sheet_spec_parameters.
C13_UnlabelledLevelFailsInUpdate ==
    [][(/\ lastOp'.kind = "setup"
        /\ ReachesSheetsStage(lastOp'.opts)
        /\ DeclaresUnlabelledLevel) =>
           /\ err' = "Exception:nolabel"
           /\ ~In("_compute_projection_specs", setupLog')
           /\ NothingMerged(sheets, sheets')]_vars

\* C13, amended: the error is the KeyError of the sheet_types lookup made
\* for the level in the loop of setup, before a SheetSpec of that level is
\* built and before _update_sheet_spec_parameters is reached; the
\* projections stage does not run, the projections tree is as it was, and
\* no stored SheetSpec has parameters merged in by that call.
C13_UnlabelledLevelFailsAtTypeLookup ==
    [][(/\ lastOp'.kind = "setup"
        /\ ReachesSheetsStage(lastOp'.opts)
        /\ DeclaresUnlabelledLevel) =>
           /\ err' = "KeyError:sheet_types"
           /\ setupLog'[Len(setupLog')] = "setup_sheets"
           /\ ~In("_compute_projection_specs", setupLog')
           /\ projections' = projections
           /\ NothingMerged(sheets, sheets')
           /\ \A i \in 1..Len(sheets') : HasKey(sheet_labels(cfg), Level(sheets'[i].val).s)]_vars

\* the level declared before the unlabelled one was stored, with the
\* defaults of its type only, when the lookup for the unlabelled one failed
C13_Witness ==
    /\ lastOp.kind = "setup"
    /\ Selected("sheets") /\ Selected("projections")
    /\ DeclaresUnlabelledLevel
    /\ err = "KeyError:sheet_types"
    /\ Len(sheets) = 1
    /\ sheets[1].val.parameters = TypeDefaults(sheets[1].val.sheet_type)
    /\ projections = <<>>

\* C14: SheetSpec(sheet_type, properties) with a properties dict that has no
\* 'level' key raises and no SheetSpec comes of it, in whatever order the
\* other keys were inserted, and with 'level' it does not raise; in a Model
\* no setup ever ends with that exception, and every SheetSpec it stores has
\* a 'level', the level it was declared under or one a declaration with the
\* same identity was declared under.
C14_LevelRequired ==
    /\ built # <<>> =>
          \A i \in 1..Len(built) :
             IF HasKey(built[i].given, "level")
             THEN /\ built[i].made.err = ""
                  /\ HasKey(built[i].made.spec.properties, "level")
             ELSE /\ built[i].made.err = "Exception:level"
                  /\ built[i].made.spec.properties = <<>>
    /\ err # "Exception:level"
    /\ \A i \in 1..Len(sheets) :
          /\ HasKey(sheets[i].val.properties, "level")
          /\ \E j \in 1..Len(cfg.setup_sheets.result) :
                Level(sheets[i].val) = StrV(cfg.setup_sheets.result[j].k)

\* a dict with two keys, neither of them 'level', was refused
C14_Witness ==
    /\ built # <<>>
    /\ Len(built[1].given) = 2
    /\ ~HasKey(built[1].given, "level")
    /\ built[1].made.err = "Exception:level"
    /\ built[2].made.err = "Exception:level"

\* a Model stored a SheetSpec declared as {} under its level: the level was
\* added before the SheetSpec was constructed
C14_WitnessThroughSetup ==
    /\ lastOp.kind = "setup"
    /\ err = ""
    /\ \E j \in 1..Len(cfg.setup_sheets.result) :
          /\ PropertyList(cfg.setup_sheets.result[j].v) = << <<>> >>
          /\ HasPath(sheets, cfg.setup_sheets.result[j].k)
          /\ GetPath(sheets, cfg.setup_sheets.result[j].k).properties =
                <<Item("level", StrV(cfg.setup_sheets.result[j].k))>>

\* C15: after update_parameters(patch) every key of the patch has the
\* patch's value, every other key has the value it had, the keys are those
\* it had and those of the patch, and applying the patch that was applied
\* last once more changes nothing.
C15_UpdateMergesAndIsIdempotent ==
    [][lastUpdate'.applied =>
          /\ \A k \in DOMAIN lastUpdate'.patch :
                /\ k \in DOMAIN target'.parameters
                /\ target'.parameters[k] = lastUpdate'.patch[k]
          /\ \A k \in (DOMAIN target.parameters) \ (DOMAIN lastUpdate'.patch) :
                /\ k \in DOMAIN target'.parameters
                /\ target'.parameters[k] = target.parameters[k]
          /\ DOMAIN target'.parameters =
                (DOMAIN target.parameters) \cup (DOMAIN lastUpdate'.patch)
          /\ (lastUpdate.applied /\ lastUpdate'.patch = lastUpdate.patch) =>
                target'.parameters = target.parameters]_vars

\* one patch overwrote a key with another value, added a key and left a
\* third key alone
C15_Witness ==
    /\ lastUpdate.applied
    /\ \E k \in DOMAIN lastUpdate.patch :
          /\ k \in DOMAIN lastUpdate.before
          /\ lastUpdate.before[k] # lastUpdate.patch[k]
          /\ target.parameters[k] = lastUpdate.patch[k]
    /\ \E k \in DOMAIN lastUpdate.patch : k \notin DOMAIN lastUpdate.before
    /\ \E k \in DOMAIN lastUpdate.before :
          k \notin DOMAIN lastUpdate.patch /\ target.parameters[k] = lastUpdate.before[k]

\* the same patch was applied twice in a row
C15_WitnessTwice ==
    /\ lastUpdate.applied
    /\ lastUpdate.patch # EmptyParams
    /\ lastUpdate.before = target.parameters

\* the last operation was a setup whose projections stage ran to its end
ProjectionsStageCompleted ==
    /\ lastOp.kind = "setup"
    /\ ProjectionsComputed
    /\ err \in {"", "AttributeError:_setup_analysis"}

\* every match name a condition is registered under
MatchNames ==
    UNION {Keys(cfg.matchconditions[i].v) : i \in 1..Len(cfg.matchconditions)}

\* a ProjectionSpec tagged m is stored for the pair of stored sheets
StoredFor(m, src, dest) ==
    \E k \in 1..Len(projections) :
       /\ projections[k].val.matchname = m
       /\ projections[k].path[1] = SheetStr(dest)
       /\ projections[k].path[2] = SheetStr(src)
       /\ projections[k].val.src = SheetRef(src)
       /\ projections[k].val.dest = SheetRef(dest)

\* dest's level has a condition registered under m
HasCondition(m, dest) ==
    /\ HasKey(cfg.matchconditions, Level(dest).s)
    /\ HasKey(Get(cfg.matchconditions, Level(dest).s), m)

ConditionOf(m, dest) == Get(Get(cfg.matchconditions, Level(dest).s), m)

\* for every key of src's properties that the condition constrains, the
\* string of src's value is contained in the string of the required value
KeysContained(condition, src) ==
    \A key \in Keys(src.properties) :
       HasKey(condition.items, key) =>
          StrContains(Str(Get(src.properties, key)), Str(Get(condition.items, key)))

\* the names of the parameter sets the label function of m returns
SetNames(m) ==
    LET paramsets == ParamSets(Get(projection_labels(cfg), m))
    IN {paramsets[i]["name"] : i \in 1..Len(paramsets)}

\* C16 as stated: a ProjectionSpec tagged m is stored for (src, dest) if and
\* only if dest's level has a condition m and src's values are contained in
\* the values it requires; a destination without conditions gets none.
C16_StoredIffConditionHolds ==
    ProjectionsStageCompleted =>
        \A i, j \in 1..Len(sheets) :
           \A m \in MatchNames :
              StoredFor(m, sheets[i].val, sheets[j].val) <=>
                 /\ HasCondition(m, sheets[j].val)
                 /\ KeysContained(ConditionOf(m, sheets[j].val), sheets[i].val)

\* m matches the pair: the condition is registered, is not None, and holds
Matches(m, src, dest) ==
    /\ HasCondition(m, dest)
    /\ ~ConditionOf(m, dest).none
    /\ KeysContained(ConditionOf(m, dest), src)

\* C16, amended: every stored ProjectionSpec tagged m for (src, dest) comes
\* of a condition m of dest's level that is not None and that src satisfies;
\* conversely such a condition has a ProjectionSpec tagged m stored for the
\* pair provided its label function returns a parameter set whose name no
\* other matching condition of the pair uses; a condition that is None
\* matches no source; a destination whose level has no conditions gets no
\* projection, and a sheet that satisfies its own condition gets one with
\* src = dest = itself.
C16_StoredIffConditionMatches ==
    ProjectionsStageCompleted =>
        /\ \A i, j \in 1..Len(sheets) :
              \A m \in MatchNames :
                 /\ StoredFor(m, sheets[i].val, sheets[j].val) =>
                       Matches(m, sheets[i].val, sheets[j].val)
                 /\ (/\ Matches(m, sheets[i].val, sheets[j].val)
                     /\ \E n \in SetNames(m) :
                           \A m2 \in MatchNames \ {m} :
                              Matches(m2, sheets[i].val, sheets[j].val) =>
                                 n \notin SetNames(m2)) =>
                       StoredFor(m, sheets[i].val, sheets[j].val)
        /\ \A k \in 1..Len(projections) :
              /\ HasKey(cfg.matchconditions, Level(projections[k].val.dest).s)
              /\ \E i, j \in 1..Len(sheets) :
                    /\ projections[k].path[1] = sheets[j].path
                    /\ projections[k].path[2] = sheets[i].path
                    /\ StoredFor(projections[k].val.matchname, sheets[i].val, sheets[j].val)

\* a sheet received a projection from itself and one from another sheet, and
\* sent none to the sheet whose level has no conditions
C16_Witness ==
    /\ ProjectionsStageCompleted
    /\ \E i, j \in 1..Len(sheets) :
          /\ i # j
          /\ \E m \in MatchNames : StoredFor(m, sheets[j].val, sheets[j].val)
          /\ \E m \in MatchNames : StoredFor(m, sheets[i].val, sheets[j].val)
          /\ ~HasKey(cfg.matchconditions, Level(sheets[i].val).s)
          /\ \A m \in MatchNames : ~StoredFor(m, sheets[j].val, sheets[i].val)

\* a condition that is None is registered for the level of a stored sheet
C16_WitnessNone ==
    /\ ProjectionsStageCompleted
    /\ \E j \in 1..Len(sheets) : \E m \in MatchNames :
          /\ HasCondition(m, sheets[j].val)
          /\ ConditionOf(m, sheets[j].val).none

\* the writes the projections stage makes for the pair (sheets[i], sheets[j]):
\* one per parameter set idx of each matching condition, the condition at
\* position pos of the dest level's conditions in their iteration order
Writes(i, j) ==
    IF ~HasKey(cfg.matchconditions, Level(sheets[j].val).s) THEN {}
    ELSE LET conditions == Get(cfg.matchconditions, Level(sheets[j].val).s)
         IN UNION {
              {[pos |-> pos, idx |-> idx, m |-> conditions[pos].k,
                paramset |-> ParamSets(Get(projection_labels(cfg), conditions[pos].k))[idx]] :
                  idx \in 1..Len(ParamSets(Get(projection_labels(cfg), conditions[pos].k)))} :
              pos \in {q \in 1..Len(conditions) :
                         Matches(conditions[q].k, sheets[i].val, sheets[j].val)}}

Later(w, v) == w.pos > v.pos \/ (w.pos = v.pos /\ w.idx > v.idx)

\* the ProjectionSpec a write leaves: the defaults of the type without src
\* and dest, the parameter set over them, and the match name
Written(w, src, dest) ==
    LET type == Get(projection_types(cfg), w.m)
        kept == (DOMAIN TypeDefaults(type)) \ {"src", "dest"}
    IN [projection_type |-> type,
        src |-> [sheet_type |-> src.sheet_type, properties |-> src.properties],
        dest |-> [sheet_type |-> dest.sheet_type, properties |-> dest.properties],
        parameters |-> [x \in kept \cup DOMAIN w.paramset |->
                          IF x \in DOMAIN w.paramset THEN w.paramset[x]
                          ELSE TypeDefaults(type)[x]],
        matchname |-> w.m]

\* C17: after a projections stage that ran to its end the projections tree
\* holds, for every pair of stored sheets and every parameter set of every
\* matching condition, an entry at (dest identity, src identity, the set's
\* name); the entry is the ProjectionSpec of the set written last to that
\* path: its type's parameters with the set merged in, tagged with the
\* set's match name; and the tree holds no other entry.
C17_OneProjectionPerParameterSet ==
    ProjectionsStageCompleted =>
        /\ Paths(projections) =
              UNION {{<<sheets[j].path, sheets[i].path, w.paramset["name"]>> :
                         w \in Writes(i, j)} : i \in 1..Len(sheets), j \in 1..Len(sheets)}
        /\ \A i, j \in 1..Len(sheets) :
              \A w \in Writes(i, j) :
                 (\A v \in Writes(i, j) :
                     v.paramset["name"] = w.paramset["name"] => ~Later(v, w)) =>
                    GetPath(projections,
                            <<sheets[j].path, sheets[i].path, w.paramset["name"]>>) =
                       Written(w, sheets[i].val, sheets[j].val)
        /\ \A k, l \in 1..Len(projections) :
              projections[k].path = projections[l].path => k = l

\* a label function returned three parameter sets for one pair, two of them
\* with the same name: two entries are stored for the pair and the one at
\* the shared name carries the later set
C17_Witness ==
    /\ ProjectionsStageCompleted
    /\ \E i, j \in 1..Len(sheets) :
          /\ \E w, v \in Writes(i, j) :
                /\ w.pos = v.pos /\ w.idx < v.idx
                /\ w.paramset["name"] = v.paramset["name"]
                /\ w.paramset # v.paramset
                /\ GetPath(projections,
                           <<sheets[j].path, sheets[i].path, v.paramset["name"]>>).parameters["delay"]
                      = v.paramset["delay"]
          /\ Cardinality({k \in 1..Len(projections) :
                            /\ projections[k].path[1] = sheets[j].path
                            /\ projections[k].path[2] = sheets[i].path}) = 2

\* every entry of the projections tree sits at (identity of its dest,
\* identity of its src, its 'name' parameter), and both identities are
\* paths of the sheets tree
ProjectionPathsWellFormed(sheet_tree, projection_tree) ==
    \A k \in 1..Len(projection_tree) :
       /\ Len(projection_tree[k].path) = 3
       /\ projection_tree[k].path[1] = SheetStr(projection_tree[k].val.dest)
       /\ projection_tree[k].path[2] = SheetStr(projection_tree[k].val.src)
       /\ "name" \in DOMAIN projection_tree[k].val.parameters
       /\ projection_tree[k].path[3] = projection_tree[k].val.parameters["name"]
       /\ HasPath(sheet_tree, projection_tree[k].path[1])
       /\ HasPath(sheet_tree, projection_tree[k].path[2])

\* C18: whatever operation is made on a Model, a setup that failed half-way
\* included, every stored ProjectionSpec then sits at (identity of its
\* dest, identity of its src, its 'name' parameter) with both identities
\* present in the sheets tree, and a setup leaves every path that the
\* sheets and the projections tree had, in the order they had.
C18_ProjectionPathsWellFormed ==
    [][/\ ProjectionPathsWellFormed(sheets', projections')
       /\ lastOp'.kind = "setup" =>
             /\ Len(sheets') >= Len(sheets)
             /\ \A i \in 1..Len(sheets) : sheets'[i].path = sheets[i].path
             /\ Len(projections') >= Len(projections)
             /\ \A i \in 1..Len(projections) :
                   projections'[i].path = projections[i].path]_vars

\* a second setup, of the projections stage alone, stored projections between
\* different sheets over the sheets an earlier setup had stored
C18_Witness ==
    /\ lastOp = [kind |-> "setup", opts |-> List(<<"projections">>)]
    /\ nSetups = 1
    /\ Len(sheets) >= 2
    /\ Len(projections) >= 2
    /\ \E k \in 1..Len(projections) : projections[k].path[1] # projections[k].path[2]

\* the position in the projections tree of the ProjectionSpec that operation
\* k of the last call connected
TreePosition(k) ==
    CHOOSE i \in 1..Len(projections) :
       projections[i].path = <<callLog[k].dest, callLog[k].src, callLog[k].pname>>

\* C19: in a call that connects the projections, two projections with the
\* same match name are connected in the order in which the projections tree
\* holds them, so that the sequence of connections is the tree's entries
\* ordered by rank and, within a rank, by position in the tree.
C19_SameRankInTreeOrder ==
    (lastOp.kind = "call" /\ Selected("projections") /\ err = "") =>
        /\ \A k \in Connects :
              \E i \in 1..Len(projections) :
                 projections[i].path = <<callLog[k].dest, callLog[k].src, callLog[k].pname>>
        /\ \A k, l \in Connects :
              k < l =>
                 \/ RankOf(callLog[k].matchname) < RankOf(callLog[l].matchname)
                 \/ /\ callLog[k].matchname = callLog[l].matchname
                    /\ TreePosition(k) < TreePosition(l)

\* two projections of one match name were connected, after a third of a
\* higher rank was stored before them and connected after them
C19_Witness ==
    /\ lastOp.kind = "call" /\ Selected("projections") /\ err = ""
    /\ Len(projections) >= 3
    /\ projections[2].val.matchname = projections[3].val.matchname
    /\ projections[1].val.matchname # projections[2].val.matchname
    /\ \E k, l, n \in Connects :
          /\ k < l /\ l < n
          /\ TreePosition(k) = 2
          /\ TreePosition(l) = 3
          /\ TreePosition(n) = 1

\* C20: when setup(['sheets', 'projections']) is run again on a Model that
\* was set up with it, the sheets tree and the projections tree have the
\* paths they had after the run before, each once: none is added, none is
\* lost, none is held twice.
C20_RerunKeepsPaths ==
    [][(/\ phase = "ready"
        /\ lastOp'.kind = "setup"
        /\ lastOp'.opts = SheetsAndProjections) =>
           /\ Paths(sheets') = Paths(sheets)
           /\ Paths(projections') = Paths(projections)
           /\ Len(sheets') = Len(sheets)
           /\ Len(projections') = Len(projections)
           /\ \A i, j \in 1..Len(sheets') : sheets'[i].path = sheets'[j].path => i = j
           /\ \A i, j \in 1..Len(projections') :
                 projections'[i].path = projections'[j].path => i = j]_vars

\* the setup was run a second time on a model with sheets and projections
C20_Witness ==
    /\ lastOp = [kind |-> "setup", opts |-> SheetsAndProjections]
    /\ nSetups = 1
    /\ err = ""
    /\ Len(sheets) >= 2
    /\ Len(projections) >= 2

====
